---- MODULE Spec2Model ----
(***************************************************************************)
(* Model of createL4L2TMColumn                                             *)
(* (htmresearch/frameworks/layers/combined_sequence_network_creation.py).  *)
(*                                                                         *)
(* The function receives a network (the region engine's handle), a nested  *)
(* configuration mapping and a suffix, and registers regions, phases and   *)
(* links with the engine.  The state is the engine's tables (regions,      *)
(* phases, links, the regions with profiling on), the caller's             *)
(* configuration (a mapping whose parameter blocks are references into a   *)
(* heap of mutable mappings, so that copying and aliasing differ), the     *)
(* function's locals (suffix, L4Params) and its position (pc).             *)
(***************************************************************************)
EXTENDS Integers, FiniteSets, Sequences, TLC

VARIABLES regions, phases, links, profiled, networkConfig, heap, suffix,
          L4Params, pc, error, engineCalls

vars == <<regions, phases, links, profiled, networkConfig, heap, suffix,
          L4Params, pc, error, engineCalls>>

network == <<regions, phases, links, profiled>>

(* ------------------------------ bounds --------------------------------- *)

\* sizes offered for externalInputSize and sensorInputSize: 0..MaxSize
MaxSize == 1
\* cell counts offered for L2Params.cellCount: 1..MaxCells
MaxCells == 2

Sizes == 0..MaxSize
CellCounts == 1..MaxCells
Suffixes == {"", "_A", "_B"}

(* --------------------------- configurations ---------------------------- *)

\* the keys the docstring requires, as dotted paths
RequiredKeys ==
  {"externalInputSize", "sensorInputSize", "L4Params", "L2Params",
   "L2Params.cellCount", "TMParams"}

TopKeys ==
  {"externalInputSize", "sensorInputSize", "L4Params", "L2Params", "TMParams"}

\* heap identities of the caller's parameter blocks and of the private copy
CallerObjects == {"cfgL4", "cfgL2", "cfgTM"}
PrivateL4 == "privL4"
NoObject == "none"

EmptyMap == [k \in {} |-> 0]

\* <constructor parameters for ApicalTMPairRegion>: with or without a
\* basalInputWidth of the caller's own
L4Contents ==
  {("columnCount" :> 1), ("columnCount" :> 1) @@ ("basalInputWidth" :> 9)}

TMContent == ("columnCount" :> 1)

L2Content(cellCount, missing) ==
  IF "L2Params.cellCount" \in missing
    THEN ("sdrSize" :> 1)
    ELSE ("sdrSize" :> 1) @@ ("cellCount" :> cellCount)

\* a configuration leaves out at most one required key
MissingChoices == {{}} \cup {{k} : k \in RequiredKeys}

ConfigValue(key, ext, sens) ==
  CASE key = "externalInputSize" -> ext
    [] key = "sensorInputSize" -> sens
    [] key = "L4Params" -> "cfgL4"
    [] key = "L2Params" -> "cfgL2"
    [] key = "TMParams" -> "cfgTM"

MakeConfig(ext, sens, missing) ==
  [key \in TopKeys \ missing |-> ConfigValue(key, ext, sens)]

\* which configuration key holds each of the caller's parameter blocks
ObjectKey ==
  ("cfgL4" :> "L4Params") @@ ("cfgL2" :> "L2Params") @@ ("cfgTM" :> "TMParams")

MakeHeap(l4, cellCount, missing) ==
  [id \in {o \in CallerObjects : ObjectKey[o] \notin missing} |->
     CASE id = "cfgL4" -> l4
       [] id = "cfgL2" -> L2Content(cellCount, missing)
       [] id = "cfgTM" -> TMContent]

(* ------------------------------ helpers -------------------------------- *)

HasKey(mapping, key) == key \in DOMAIN mapping

\* mapping[key] = value on a mutable mapping: the key is added or overwritten
SetItem(mapping, key, value) ==
  [k \in DOMAIN mapping \cup {key} |-> IF k = key THEN value ELSE mapping[k]]

\* json.dumps of a flat mapping: the text lists its key/value pairs and keeps
\* no tie to the object it was made from
JsonDumps(mapping) == {<<k, mapping[k]>> : k \in DOMAIN mapping}

NoError == [kind |-> "none", detail |-> ""]
KeyError(key) == [kind |-> "KeyError", detail |-> key]
EngineError(name) == [kind |-> "EngineError", detail |-> name]

(* ---------------------------- region names ----------------------------- *)

externalInputName(s) == "externalInput" \o s
sensorInputName(s) == "sensorInput" \o s
\* as L4ColumnName, with the suffix forgotten
L4ColumnName_NoSuffix(s) == "L4Column"
L4ColumnName(s) == "L4Column" \o s
L2ColumnName(s) == "L2Column" \o s
TMColumnName(s) == "TMColumn" \o s

(* ------------------------- the engine's calls -------------------------- *)

Region(typeId, params) == [typeId |-> typeId, params |-> params]

\* network.link(src, dest, "UniformLink", "", srcOutput=, destInput=,
\* propagationDelay=): one entry of the engine's link table
Link(src, dest, srcOutput, destInput, propagationDelay) ==
  [src |-> src, dest |-> dest, linkType |-> "UniformLink", linkParams |-> "",
   srcOutput |-> srcOutput, destInput |-> destInput,
   propagationDelay |-> propagationDelay]

\* the delay of a link call that passes no propagationDelay
DefaultDelay == 0
\* the delay passed for the L2 feedback link
FeedbackDelay == 1

\* as ExternalLinkCalls, with the second call's destInput copied from the first
ExternalLinkCalls_SamePort(s) ==
  {Link(externalInputName(s), L4ColumnName(s), "dataOut", "basalInput",
        DefaultDelay)}

\* the two link calls whose source is the external input
ExternalLinkCalls(s) ==
  {Link(externalInputName(s), L4ColumnName(s), "dataOut", "basalInput",
        DefaultDelay),
   Link(externalInputName(s), L4ColumnName(s), "dataOut",
        "basalGrowthCandidates", DefaultDelay)}

\* as FeedbackLinkCall, with the propagationDelay argument left out
FeedbackLinkCall_NoDelay(s) ==
  Link(L2ColumnName(s), L4ColumnName(s), "feedForwardOutput", "apicalInput",
       DefaultDelay)

\* the link L2 feedback to L4
FeedbackLinkCall(s) ==
  Link(L2ColumnName(s), L4ColumnName(s), "feedForwardOutput", "apicalInput",
       FeedbackDelay)

\* every other link call of the function
InternalLinkCalls(s) ==
  {Link(sensorInputName(s), L4ColumnName(s), "dataOut", "activeColumns",
        DefaultDelay),
   Link(sensorInputName(s), TMColumnName(s), "dataOut", "activeColumns",
        DefaultDelay),
   Link(L4ColumnName(s), L2ColumnName(s), "activeCells", "feedforwardInput",
        DefaultDelay),
   Link(L4ColumnName(s), L2ColumnName(s), "predictedActiveCells",
        "feedforwardGrowthCandidates", DefaultDelay),
   FeedbackLinkCall(s),
   Link(sensorInputName(s), L2ColumnName(s), "resetOut", "resetIn",
        DefaultDelay),
   Link(sensorInputName(s), TMColumnName(s), "resetOut", "resetIn",
        DefaultDelay),
   Link(sensorInputName(s), L4ColumnName(s), "resetOut", "resetIn",
        DefaultDelay)}

\* all link calls the function makes, whatever the configuration
LinkCalls(s) == ExternalLinkCalls(s) \cup InternalLinkCalls(s)

\* the phases set for the input regions and for the three layers
ExternalInputPhase == 0
SensorInputPhase == 0
L4Phase == 2
TMPhase == 2
L2Phase == 3

\* as PhaseCalls, with the external input's phase set unconditionally
PhaseCalls_Unconditional(s, withExternal) ==
  (externalInputName(s) :> <<ExternalInputPhase>>)
  @@ (sensorInputName(s) :> <<SensorInputPhase>>)
  @@ (L4ColumnName(s) :> <<L4Phase>>)
  @@ (TMColumnName(s) :> <<TMPhase>>)
  @@ (L2ColumnName(s) :> <<L2Phase>>)

\* the setPhases calls of the function: name -> phase list
PhaseCalls(s, withExternal) ==
  (IF withExternal THEN (externalInputName(s) :> <<ExternalInputPhase>>) ELSE EmptyMap)
  @@ (sensorInputName(s) :> <<SensorInputPhase>>)
  @@ (L4ColumnName(s) :> <<L4Phase>>)
  @@ (TMColumnName(s) :> <<TMPhase>>)
  @@ (L2ColumnName(s) :> <<L2Phase>>)

\* enableProfiling(network): profiling is switched on for every region
EnableProfiling(regs) == DOMAIN regs

(* ------------------------------- state --------------------------------- *)

\* The caller holds one configuration, made before the first call, and an
\* empty network.
Init ==
  /\ regions = EmptyMap
  /\ phases = EmptyMap
  /\ links = {}
  /\ profiled = {}
  /\ \E ext \in Sizes, sens \in Sizes, cellCount \in CellCounts,
        l4 \in L4Contents, missing \in MissingChoices :
       /\ networkConfig = MakeConfig(ext, sens, missing)
       /\ heap = MakeHeap(l4, cellCount, missing)
  /\ suffix = ""
  /\ L4Params = NoObject
  /\ pc = "idle"
  /\ error = NoError
  /\ engineCalls = 0

AtRest == pc \in {"idle", "done", "failed"}

\* an exception leaves the function: nothing after the raising statement runs
Raise(err) ==
  /\ pc' = "failed"
  /\ error' = err

\* the caller makes a new, empty network; the outcome of the last call is
\* of no concern any more
NewNetwork ==
  /\ AtRest
  /\ regions # EmptyMap
  /\ regions' = EmptyMap
  /\ phases' = EmptyMap
  /\ links' = {}
  /\ profiled' = {}
  /\ pc' = "idle"
  /\ error' = NoError
  /\ UNCHANGED <<networkConfig, heap, suffix, L4Params, engineCalls>>

\* the caller calls createL4L2TMColumn(network, networkConfig, suffix);
\* lines 81-85 name the regions.  The locals of an earlier call are gone.
Call ==
  /\ AtRest
  /\ \E s \in Suffixes : suffix' = s
  /\ heap' = [o \in DOMAIN heap \ {PrivateL4} |-> heap[o]]
  /\ L4Params' = NoObject
  /\ pc' = "derive"
  /\ error' = NoError
  /\ engineCalls' = 0
  /\ UNCHANGED <<network, networkConfig>>

\* as DeepCopy, without the copy: the local names the caller's object
DeepCopy_Alias(h, ref) == [object |-> ref, heap |-> h]

\* copy.deepcopy(mapping): a new object with the same content
DeepCopy(h, ref) == [object |-> PrivateL4, heap |-> h @@ (PrivateL4 :> h[ref])]

\* lines 87-89
DeriveL4Params ==
  /\ pc = "derive"
  /\ UNCHANGED <<network, networkConfig, suffix, engineCalls>>
  /\ IF ~HasKey(networkConfig, "L4Params")
       THEN Raise(KeyError("L4Params")) /\ UNCHANGED <<heap, L4Params>>
       ELSE
         LET copied == DeepCopy(heap, networkConfig["L4Params"])
             local == copied.object
         IN  /\ L4Params' = local
             /\ IF ~HasKey(networkConfig, "externalInputSize")
                  THEN /\ Raise(KeyError("externalInputSize"))
                       /\ heap' = copied.heap
                  ELSE
                    LET basal ==
                          [copied.heap EXCEPT ![local] =
                             SetItem(@, "basalInputWidth",
                                     networkConfig["externalInputSize"])]
                    IN  IF ~HasKey(networkConfig, "L2Params")
                          THEN Raise(KeyError("L2Params")) /\ heap' = basal
                          ELSE IF ~HasKey(heap[networkConfig["L2Params"]],
                                          "cellCount")
                          THEN Raise(KeyError("cellCount")) /\ heap' = basal
                          ELSE
                            /\ heap' =
                                 [basal EXCEPT ![local] =
                                    SetItem(@, "apicalInputWidth",
                                      heap[networkConfig["L2Params"]]["cellCount"])]
                            /\ pc' = "addExternalInput"
                            /\ UNCHANGED error

\* network.addRegion(name, typeId, params): a duplicate name is the engine's
\* error, otherwise the region is registered
AddRegion(name, typeId, params, next) ==
  /\ engineCalls' = engineCalls + 1
  /\ UNCHANGED <<phases, links, profiled>>
  /\ IF name \in DOMAIN regions
       THEN Raise(EngineError(name)) /\ UNCHANGED regions
       ELSE /\ regions' = regions @@ (name :> Region(typeId, params))
            /\ pc' = next
            /\ UNCHANGED error

\* line 91 and line 110: the condition under which the external input exists
ExternalInputWanted == networkConfig["externalInputSize"] > 0

\* lines 91-94
AddExternalInput ==
  /\ pc = "addExternalInput"
  /\ UNCHANGED <<networkConfig, heap, suffix, L4Params>>
  /\ IF ExternalInputWanted
       THEN AddRegion(externalInputName(suffix), "py.RawSensor",
              JsonDumps("outputWidth" :> networkConfig["externalInputSize"]),
              "addSensorInput")
       ELSE /\ pc' = "addSensorInput"
            /\ UNCHANGED <<network, error, engineCalls>>

\* lines 95-97
AddSensorInput ==
  /\ pc = "addSensorInput"
  /\ UNCHANGED <<networkConfig, heap, suffix, L4Params>>
  /\ IF ~HasKey(networkConfig, "sensorInputSize")
       THEN Raise(KeyError("sensorInputSize"))
            /\ UNCHANGED <<network, engineCalls>>
       ELSE AddRegion(sensorInputName(suffix), "py.RawSensor",
              JsonDumps("outputWidth" :> networkConfig["sensorInputSize"]),
              "addL4Column")

\* line 99
AddL4Column ==
  /\ pc = "addL4Column"
  /\ UNCHANGED <<networkConfig, heap, suffix, L4Params>>
  /\ AddRegion(L4ColumnName(suffix), "py.ApicalTMPairRegion",
               JsonDumps(heap[L4Params]), "addTMColumn")

\* as AddTMColumn, reading TMParams with an empty default instead of failing
AddTMColumn_Default ==
  /\ pc = "addTMColumn"
  /\ UNCHANGED <<networkConfig, heap, suffix, L4Params>>
  /\ AddRegion(TMColumnName(suffix), "py.ApicalTMSequenceRegion",
               IF HasKey(networkConfig, "TMParams")
                 THEN JsonDumps(heap[networkConfig["TMParams"]])
                 ELSE JsonDumps(EmptyMap),
               "addL2Column")

\* lines 100-102
AddTMColumn ==
  /\ pc = "addTMColumn"
  /\ UNCHANGED <<networkConfig, heap, suffix, L4Params>>
  /\ IF ~HasKey(networkConfig, "TMParams")
       THEN Raise(KeyError("TMParams")) /\ UNCHANGED <<network, engineCalls>>
       ELSE AddRegion(TMColumnName(suffix), "py.ApicalTMSequenceRegion",
               JsonDumps(heap[networkConfig["TMParams"]]), "addL2Column")

\* lines 103-105
AddL2Column ==
  /\ pc = "addL2Column"
  /\ UNCHANGED <<networkConfig, heap, suffix, L4Params>>
  /\ AddRegion(L2ColumnName(suffix), "py.ColumnPoolerRegion",
               JsonDumps(heap[networkConfig["L2Params"]]), "setPhases")

\* lines 107-118: every region named here was added above
SetPhases ==
  /\ pc = "setPhases"
  /\ LET calls == PhaseCalls(suffix, ExternalInputWanted)
     IN  /\ phases' = calls @@ phases
         /\ engineCalls' = engineCalls + Cardinality(DOMAIN calls)
  /\ pc' = "link"
  /\ UNCHANGED <<regions, links, profiled, networkConfig, heap, suffix,
                 L4Params, error>>

\* lines 120-150.  The first two calls name the external input whether or
\* not it was added.  What link does with the name of a region that was
\* never added is the engine's business: it refuses the call (the build
\* ends there, with no link made) or it records the link.
WireLinks ==
  /\ pc = "link"
  /\ UNCHANGED <<regions, phases, profiled, networkConfig, heap, suffix,
                 L4Params>>
  /\ \E refuses \in BOOLEAN :
       IF externalInputName(suffix) \notin DOMAIN regions /\ refuses
         THEN /\ Raise(EngineError(externalInputName(suffix)))
              /\ engineCalls' = engineCalls + 1
              /\ UNCHANGED links
         ELSE /\ links' = links \cup LinkCalls(suffix)
              /\ engineCalls' = engineCalls + Cardinality(LinkCalls(suffix))
              /\ pc' = "return"
              /\ UNCHANGED error

\* lines 152-154
Return ==
  /\ pc = "return"
  /\ profiled' = EnableProfiling(regions)
  /\ pc' = "done"
  /\ UNCHANGED <<regions, phases, links, networkConfig, heap, suffix, L4Params,
                 error, engineCalls>>

Next ==
  \/ NewNetwork
  \/ Call
  \/ DeriveL4Params
  \/ AddExternalInput
  \/ AddSensorInput
  \/ AddL4Column
  \/ AddTMColumn
  \/ AddL2Column
  \/ SetPhases
  \/ WireLinks
  \/ Return

Spec == Init /\ [][Next]_vars

(* ------------------------- reading the state --------------------------- *)

\* the names one call gives its regions
ColumnNames(s) ==
  {externalInputName(s), sensorInputName(s), L4ColumnName(s), L2ColumnName(s),
   TMColumnName(s)}

ColumnRegions(s) == ColumnNames(s) \cap DOMAIN regions

\* the links that touch a region name of column s
ColumnLinks(s) ==
  {l \in links : l.src \in ColumnNames(s) \/ l.dest \in ColumnNames(s)}

\* the required keys the caller's configuration lacks, as dotted paths
MissingKeys ==
  {k \in TopKeys : ~HasKey(networkConfig, k)}
  \cup (IF HasKey(networkConfig, "L2Params")
           /\ ~HasKey(heap[networkConfig["L2Params"]], "cellCount")
          THEN {"L2Params.cellCount"} ELSE {})

ValidConfig == MissingKeys = {}

ExternalSize == networkConfig["externalInputSize"]
SensorSize == networkConfig["sensorInputSize"]

\* an edge of the edge list of the design: delay-free unless stated
Edge(s, src, srcOutput, dest, destInput, delay) ==
  [src |-> src \o s, dest |-> dest \o s, linkType |-> "UniformLink",
   linkParams |-> "", srcOutput |-> srcOutput, destInput |-> destInput,
   propagationDelay |-> delay]

Edges1To2(s) ==
  {Edge(s, "externalInput", "dataOut", "L4Column", "basalInput", 0),
   Edge(s, "externalInput", "dataOut", "L4Column", "basalGrowthCandidates", 0)}

Edge7(s) == Edge(s, "L2Column", "feedForwardOutput", "L4Column", "apicalInput", 1)

Edges3To10(s) ==
  {Edge(s, "sensorInput", "dataOut", "L4Column", "activeColumns", 0),
   Edge(s, "sensorInput", "dataOut", "TMColumn", "activeColumns", 0),
   Edge(s, "L4Column", "activeCells", "L2Column", "feedforwardInput", 0),
   Edge(s, "L4Column", "predictedActiveCells", "L2Column",
        "feedforwardGrowthCandidates", 0),
   Edge7(s),
   Edge(s, "sensorInput", "resetOut", "L2Column", "resetIn", 0),
   Edge(s, "sensorInput", "resetOut", "TMColumn", "resetIn", 0),
   Edge(s, "sensorInput", "resetOut", "L4Column", "resetIn", 0)}

(* -------------------------------- C1 ------------------------------------ *)

\* C1: with externalInputSize == 0, a call that returns leaves exactly 8
\* links for its column, no region externalInput+suffix and no link with that
\* name as source or destination; and no engine call of the build is refused
\* for naming externalInput+suffix.
C1_NoExternalInputLinks ==
  (ValidConfig /\ SensorSize > 0 /\ ExternalSize = 0) =>
     /\ pc = "done" =>
          /\ Cardinality(ColumnLinks(suffix)) = 8
          /\ "externalInput" \o suffix \notin DOMAIN regions
          /\ \A l \in links :
               /\ l.src # "externalInput" \o suffix
               /\ l.dest # "externalInput" \o suffix
     /\ ~(pc = "failed" /\ error = EngineError("externalInput" \o suffix))

(* -------------------------------- C2 ------------------------------------ *)

\* C2: with externalInputSize > 0, a call that returns has created exactly
\* the five regions externalInput, sensorInput, L4Column, TMColumn, L2Column
\* (suffix appended) and exactly the 10 links of the edge list, and nothing
\* else under these names.
C2_FiveRegionsTenLinks ==
  (pc = "done" /\ ExternalSize > 0) =>
     /\ ColumnRegions(suffix) =
          {b \o suffix : b \in {"externalInput", "sensorInput", "L4Column",
                                "TMColumn", "L2Column"}}
     /\ regions["externalInput" \o suffix].typeId = "py.RawSensor"
     /\ regions["sensorInput" \o suffix].typeId = "py.RawSensor"
     /\ regions["L4Column" \o suffix].typeId = "py.ApicalTMPairRegion"
     /\ regions["TMColumn" \o suffix].typeId = "py.ApicalTMSequenceRegion"
     /\ regions["L2Column" \o suffix].typeId = "py.ColumnPoolerRegion"
     /\ ColumnLinks(suffix) = Edges1To2(suffix) \cup Edges3To10(suffix)
     /\ Cardinality(ColumnLinks(suffix)) = 10
     /\ engineCalls = 20

C2_Witness ==
  /\ pc = "done"
  /\ ExternalSize > 0
  /\ suffix = "_A"
  /\ Cardinality(ColumnLinks("_A")) = 10

(* -------------------------------- C3 ------------------------------------ *)

PhasesSet == pc \in {"link", "return", "done"}

\* C3: once the phases of a column are set, sensorInput (and externalInput
\* when it exists) has phase 0, L4Column and TMColumn have phase 2 and
\* L2Column has phase 3; and no phase is ever set for a name that is not a
\* region.
C3_Phases ==
  /\ DOMAIN phases \subseteq DOMAIN regions
  /\ PhasesSet =>
       /\ phases["sensorInput" \o suffix] = <<0>>
       /\ ("externalInput" \o suffix \in DOMAIN regions
             => phases["externalInput" \o suffix] = <<0>>)
       /\ phases["L4Column" \o suffix] = <<2>>
       /\ phases["TMColumn" \o suffix] = <<2>>
       /\ phases["L2Column" \o suffix] = <<3>>

C3_Witness ==
  /\ PhasesSet
  /\ ExternalSize = 0
  /\ "sensorInput" \o suffix \in DOMAIN phases
  /\ "externalInput" \o suffix \notin DOMAIN phases

(* -------------------------------- C4 ------------------------------------ *)

\* C4: in a built column exactly one link has propagationDelay 1, the link
\* L2Column/feedForwardOutput -> L4Column/apicalInput; every other link has
\* propagationDelay 0.
C4_OneDelayedLink ==
  pc = "done" =>
     /\ {l \in ColumnLinks(suffix) : l.propagationDelay = 1} = {Edge7(suffix)}
     /\ \A l \in ColumnLinks(suffix) \ {Edge7(suffix)} : l.propagationDelay = 0
     /\ \A l \in links :
          l.propagationDelay # 0 => \E s \in Suffixes : l = Edge7(s)

C4_Witness ==
  /\ pc = "done"
  /\ ExternalSize > 0
  /\ Edge7(suffix) \in links
  /\ Cardinality(ColumnLinks(suffix)) > 1

(* -------------------------------- C5 ------------------------------------ *)

\* what the caller's L4Params plus the two derived fields serialise to
ExpectedL4Params ==
  JsonDumps(SetItem(SetItem(heap["cfgL4"], "basalInputWidth", ExternalSize),
                    "apicalInputWidth", heap["cfgL2"]["cellCount"]))

L4Registered(s) == "L4Column" \o s \in DOMAIN regions

CallerUnchanged ==
  /\ networkConfig' = networkConfig
  /\ \A o \in CallerObjects \cap DOMAIN heap :
       o \in DOMAIN heap' /\ heap'[o] = heap[o]

\* C5: the params registered for L4Column are the caller's L4Params plus
\* basalInputWidth = externalInputSize and apicalInputWidth =
\* L2Params.cellCount, and no step of a call changes the caller's
\* networkConfig or any of its parameter blocks.
C5_DerivedParamsPrivate ==
  /\ [](\A s \in Suffixes :
          L4Registered(s) => regions["L4Column" \o s].params = ExpectedL4Params)
  /\ [][CallerUnchanged]_vars

C5_Witness ==
  /\ pc = "done"
  /\ L4Registered(suffix)
  /\ ~HasKey(heap["cfgL4"], "apicalInputWidth")
  /\ <<"apicalInputWidth", 2>> \in regions["L4Column" \o suffix].params
  /\ <<"basalInputWidth", 1>> \in regions["L4Column" \o suffix].params
  /\ HasKey(heap["cfgL4"], "basalInputWidth")
  /\ heap["cfgL4"]["basalInputWidth"] = 9

(* -------------------------------- C6 ------------------------------------ *)

\* the key a dotted path ends in: what a failed lookup names
KeyName(path) == IF path = "L2Params.cellCount" THEN "cellCount" ELSE path

\* the last position a call can reach when the key is missing
LastPosition(path) ==
  CASE path = "sensorInputSize" -> {"derive", "addExternalInput", "addSensorInput"}
    [] path = "TMParams" ->
         {"derive", "addExternalInput", "addSensorInput", "addL4Column",
          "addTMColumn"}
    [] OTHER -> {"derive"}

C7_FailsBeforeAnyEngineCall ==
  (pc = "failed" /\ MissingKeys # {} /\ error.kind = "KeyError") =>
     engineCalls = 0

(* -------------------------------- C8 ------------------------------------ *)

\* C8: with sensorInputSize <= 0 the build is rejected with ValidationError
\* and no sensorInput region is created; with externalInputSize == 0 (and a
\* positive sensorInputSize) the build is accepted and does not fail.
C8_SensorSizeValidated ==
  ValidConfig =>
     /\ SensorSize <= 0 =>
          /\ \A s \in Suffixes : "sensorInput" \o s \notin DOMAIN regions
          /\ pc # "done"
          /\ pc = "failed" => error.kind = "ValidationError"
     /\ (SensorSize > 0 /\ ExternalSize = 0) =>
          ~(pc = "failed" /\ error = EngineError("externalInput" \o suffix))

(* -------------------------------- C9 ------------------------------------ *)

\* the base name of each region name of column s
BaseName(s) ==
  (externalInputName(s) :> "externalInput") @@ (sensorInputName(s) :> "sensorInput")
  @@ (L4ColumnName(s) :> "L4Column") @@ (L2ColumnName(s) :> "L2Column")
  @@ (TMColumnName(s) :> "TMColumn")

\* column s has its links
Wired(s) == \E l \in links : l.src = L2ColumnName(s)

\* the links and the phases of column s with the suffix taken off
LinkShape(s) ==
  {[l EXCEPT !.src = BaseName(s)[l.src], !.dest = BaseName(s)[l.dest]] :
     l \in ColumnLinks(s)}

PhaseShape(s) ==
  {<<BaseName(s)[n], phases[n]>> : n \in ColumnNames(s) \cap DOMAIN phases}

\* what a step of a call leaves alone, and where it may add
ColumnsKept ==
  /\ \A n \in DOMAIN regions : n \in DOMAIN regions' /\ regions'[n] = regions[n]
  /\ \A n \in DOMAIN phases : n \in DOMAIN phases' /\ phases'[n] = phases[n]
  /\ links \subseteq links'
  /\ (DOMAIN regions' \ DOMAIN regions) \subseteq ColumnNames(suffix')
  /\ (DOMAIN phases' \ DOMAIN phases) \subseteq ColumnNames(suffix')
  /\ \A l \in links' \ links :
       l.src \in ColumnNames(suffix') /\ l.dest \in ColumnNames(suffix')

\* C9: for two distinct suffixes the region names are disjoint, no link
\* joins a region of one to a region of the other, two wired columns have
\* the same links (ports, delays) and phases up to the suffix, and no step
\* of a call changes a region, phase or link that is already there or adds
\* one outside its own column.
C9_IndependentColumns ==
  /\ [](\A a, b \in Suffixes :
          a # b =>
            /\ ColumnNames(a) \cap ColumnNames(b) = {}
            /\ Cardinality(ColumnNames(a)) = 5
            /\ \A l \in links :
                 /\ ~(l.src \in ColumnNames(a) /\ l.dest \in ColumnNames(b))
                 /\ \E s \in Suffixes : l \in ColumnLinks(s)
            /\ (Wired(a) /\ Wired(b)) =>
                 /\ LinkShape(a) = LinkShape(b)
                 /\ PhaseShape(a) = PhaseShape(b))
  /\ [][pc' # "idle" => ColumnsKept]_vars

C9_Witness ==
  /\ pc = "done"
  /\ suffix = "_B"
  /\ Wired("_A")
  /\ Wired("_B")
  /\ ExternalSize > 0
  /\ Cardinality(links) = 20

(* -------------------------------- C10 ----------------------------------- *)

HasPhase(n) == n \in DOMAIN regions /\ n \in DOMAIN phases
PhaseOf(n) == phases[n][1]

\* C10: in a built topology every link with propagationDelay 0 goes from a
\* region of strictly lower phase to a region of strictly higher phase, and
\* the only link from a higher phase to a lower one is the feedback link
\* L2Column -> L4Column, which has delay 1.
C10_DelayFreeLinksAscend ==
  (pc = "done" /\ SensorSize > 0) =>
     \A l \in links :
        /\ HasPhase(l.src) /\ HasPhase(l.dest)
        /\ l.propagationDelay = 0 => PhaseOf(l.src) < PhaseOf(l.dest)
        /\ PhaseOf(l.src) >= PhaseOf(l.dest) =>
             /\ l.propagationDelay = 1
             /\ \E s \in Suffixes : l = Edge7(s)

====
